---- MODULE Spec2Model ----
(***************************************************************************)
(* Model of pkg/config/config.go: the resource registry (Config.Resources, *)
(* AddResource, FindResource, ResourceCount) and the dependency graph      *)
(* builder (DoYaLikeDAGs).                                                 *)
(*                                                                         *)
(* A Go string is a sequence of tokens: the separator "." and the maximal  *)
(* dot-free fragments between separators, so "cluster.k3s" is              *)
(* <<"cluster", ".", "k3s">> and "" is <<>>.  Concatenation is \o, and     *)
(* strings.Split(s, ".") cuts at every "." token, as the library does.     *)
(*                                                                         *)
(* A Resource is a pointer: the record carries the pointer (ptr) with the  *)
(* ResourceInfo fields the pointer leads to.  ptr = 0 is the nil Resource. *)
(***************************************************************************)
EXTENDS Integers, Sequences, FiniteSets, TLC

VARIABLES Resources, lastOp, ret

vars == <<Resources, lastOp, ret>>

\* ---------------------------------------------------------------- bounds
MaxResources == 2

\* ------------------------------------------------------------- constants
Dot == "."
PendingCreation == "pending_creation"

\* ---------------------------------------------------------------- inputs
Types == { <<"cluster">>, <<"network">> }
Names == { <<"k3s">>, <<"wan">>, <<"k3s", Dot, "x">> }

ClusterK3s  == <<"cluster", Dot, "k3s">>
NetworkWan  == <<"network", Dot, "wan">>
ClusterK3sX == <<"cluster", Dot, "k3s", Dot, "x">>
NoSeparator == <<"cluster">>
EmptyString == <<>>

DependsOnLists ==
    { <<>>, <<ClusterK3s>>, <<NetworkWan>>, <<NetworkWan, ClusterK3s>>,
      <<NoSeparator>>, <<EmptyString>> }

Addresses ==
    { ClusterK3s, NetworkWan, ClusterK3sX, NoSeparator, EmptyString }

\* ---------------------------------------------------------------- values
NilResource ==
    [ptr |-> 0, Type |-> <<>>, Name |-> <<>>, Status |-> "", DependsOn |-> <<>>]

NilError == [type |-> "nil", Name |-> <<>>, wraps |-> "nil"]

ResourceNotFoundError(name) ==
    [type |-> "ResourceNotFoundError", Name |-> name, wraps |-> "nil"]

ResourceExistsError(name) ==
    [type |-> "ResourceExistsError", Name |-> name, wraps |-> "nil"]

\* xerrors.Errorf("Could not build graph from resources: %w", err)
Errorf(err) == [type |-> "wrapError", Name |-> err.Name, wraps |-> err.type]

NilGraph == [nil |-> TRUE, V |-> {}, E |-> {}]

NoReturn == [kind |-> "none", r |-> NilResource, err |-> NilError,
             graph |-> NilGraph, count |-> 0]

\* xerrors.Is(err, target) for an error that wraps nothing and has no Is
\* method: the comparable struct values are compared with ==.
XerrorsIs(err, target) == err # NilError /\ err = target

\* fmt.Sprintf("%s.%s", type, name)
Sprintf(type, name) == type \o <<Dot>> \o name

HasDot(s) == \E i \in 1..Len(s) : s[i] = Dot

FirstDot(s) == CHOOSE i \in 1..Len(s) : s[i] = Dot /\ \A j \in 1..(i-1) : s[j] # Dot

\* strings.Split(s, "."): "" gives [""], "a" gives ["a"], "a." gives ["a", ""]
RECURSIVE Split(_)
Split(s) ==
    IF ~HasDot(s) THEN << s >>
    ELSE << SubSeq(s, 1, FirstDot(s) - 1) >> \o Split(SubSeq(s, FirstDot(s) + 1, Len(s)))

\* ------------------------------------------------------------------ New
New == [Blueprint |-> "nil", Resources |-> <<>>]

\* --------------------------------------------------------- FindResource
\* The range loop of FindResource from index i on.  parts[1] is Go's
\* parts[0]; Go's parts[1] is read only when the Type comparison held, and
\* the read panics when Split returned a single part.
RECURSIVE FindFrom(_, _, _, _)
FindFrom(res, parts, name, i) ==
    IF i > Len(res)
    THEN [NoReturn EXCEPT !.kind = "err", !.err = ResourceNotFoundError(name)]
    ELSE IF res[i].Type = parts[1]
         THEN IF Len(parts) < 2
              THEN [NoReturn EXCEPT !.kind = "panic"]
              ELSE IF res[i].Name = parts[2]
                   THEN [NoReturn EXCEPT !.kind = "ok", !.r = res[i]]
                   ELSE FindFrom(res, parts, name, i + 1)
         ELSE FindFrom(res, parts, name, i + 1)

FindResource(res, name) == FindFrom(res, Split(name), name, 1)

\* ---------------------------------------------------------- AddResource
\* AddResource with the new resource put first instead of last
AddResourcePrepends(res, r) ==
    [Resources |-> <<r>> \o res, ret |-> [NoReturn EXCEPT !.kind = "ok"]]

\* The result of c.AddResource(r) on registry res: the new registry and
\* what the call returns.
AddResourceResult(res, r) ==
    LET f == FindResource(res, Sprintf(r.Type, r.Name)) IN
    IF f.kind = "panic"
    THEN [Resources |-> res, ret |-> f]
    ELSE IF f.err # NilError /\ XerrorsIs(f.err, ResourceNotFoundError(<<>>))
         THEN [Resources |-> res,
               ret |-> [NoReturn EXCEPT !.kind = "err",
                                        !.err = ResourceExistsError(r.Name)]]
         ELSE [Resources |-> Append(res, r),
               ret |-> [NoReturn EXCEPT !.kind = "ok"]]

\* ------------------------------------------------------- DoYaLikeDAGs
\* an edge from the dependent to the dependency
BasicEdgeReversed(s, t) == [S |-> t.ptr, T |-> s.ptr]

\* dag.BasicEdge(source, target), by the pointers of its two ends
BasicEdge(s, t) == [S |-> s.ptr, T |-> t.ptr]

\* graph.Add(resource) for every resource (first loop)
AddAll(res) == { res[i].ptr : i \in 1..Len(res) }

\* The nested loops that connect the dependencies, from resource i and
\* dependency j on, with the edges E connected so far.
RECURSIVE ConnectFrom(_, _, _, _, _)
ConnectFrom(res, V, E, i, j) ==
    IF i > Len(res)
    THEN [NoReturn EXCEPT !.kind = "ok", !.graph = [nil |-> FALSE, V |-> V, E |-> E]]
    ELSE IF j > Len(res[i].DependsOn)
         THEN ConnectFrom(res, V, E, i + 1, 1)
         ELSE LET f == FindResource(res, res[i].DependsOn[j]) IN
              IF f.kind = "panic"
              THEN [NoReturn EXCEPT !.kind = "panic"]
              ELSE IF XerrorsIs(f.err, ResourceNotFoundError(<<>>))
                   THEN [NoReturn EXCEPT !.kind = "err", !.err = Errorf(f.err)]
                   ELSE ConnectFrom(res, V, E \cup {BasicEdge(f.r, res[i])}, i, j + 1)

DoYaLikeDAGsResult(res) == ConnectFrom(res, AddAll(res), {}, 1, 1)

\* -------------------------------------------------------- ResourceCount
ResourceCount(res) == Len(res)

\* -------------------------------------------------------------- actions
\* A resource handed to AddResource: a newly constructed one (a pointer no
\* registered resource has), or one that is registered already.
FreshPtr == Len(Resources) + 1

NewResources ==
    { [ptr |-> FreshPtr, Type |-> t, Name |-> n, Status |-> PendingCreation,
       DependsOn |-> d] : t \in Types, n \in Names, d \in DependsOnLists }

Registered == { Resources[i] : i \in 1..Len(Resources) }

Running == ret.kind # "panic"

Init ==
    /\ Resources = New.Resources
    /\ lastOp = [op |-> "New", r |-> NilResource, name |-> <<>>]
    /\ ret = NoReturn

AddResource(r) ==
    /\ Running
    /\ Len(Resources) < MaxResources
    /\ lastOp' = [op |-> "AddResource", r |-> r, name |-> <<>>]
    /\ Resources' = AddResourceResult(Resources, r).Resources
    /\ ret' = AddResourceResult(Resources, r).ret

CallFindResource(name) ==
    /\ Running
    /\ lastOp' = [op |-> "FindResource", r |-> NilResource, name |-> name]
    /\ ret' = FindResource(Resources, name)
    /\ UNCHANGED Resources

\* a build that empties the registry when it fails
DoYaLikeDAGsDropsOnError ==
    /\ Running
    /\ lastOp' = [op |-> "DoYaLikeDAGs", r |-> NilResource, name |-> <<>>]
    /\ ret' = DoYaLikeDAGsResult(Resources)
    /\ Resources' = IF ret'.kind = "ok" THEN Resources ELSE <<>>

DoYaLikeDAGs ==
    /\ Running
    /\ lastOp' = [op |-> "DoYaLikeDAGs", r |-> NilResource, name |-> <<>>]
    /\ ret' = DoYaLikeDAGsResult(Resources)
    /\ UNCHANGED Resources

CallResourceCount ==
    /\ Running
    /\ lastOp' = [op |-> "ResourceCount", r |-> NilResource, name |-> <<>>]
    /\ ret' = [NoReturn EXCEPT !.kind = "ok", !.count = ResourceCount(Resources)]
    /\ UNCHANGED Resources

Next ==
    \/ \E r \in NewResources \cup Registered : AddResource(r)
    \/ \E name \in Addresses : CallFindResource(name)
    \/ DoYaLikeDAGs
    \/ CallResourceCount

Spec == Init /\ [][Next]_vars

TypeOK ==
    /\ Len(Resources) <= MaxResources
    /\ ret.kind \in {"none", "ok", "err", "panic"}

\* ----------------------------------------------------- shared vocabulary
SameAddress(a, b) == a.Type = b.Type /\ a.Name = b.Name

Holds(res, r) == \E i \in 1..Len(res) : SameAddress(res[i], r)

\* an address has exactly two non-empty segments around a single "."
WellFormed(name) == Len(name) = 3 /\ name[1] # Dot /\ name[2] = Dot /\ name[3] # Dot

\* some registered resource has this address
Present(res, name) == \E i \in 1..Len(res) : Sprintf(res[i].Type, res[i].Name) = name

Ptrs == 0..(MaxResources + 1)

\* a path of at least one edge leads from x to y, in at most n edges
RECURSIVE Reach(_, _, _, _)
Reach(E, x, y, n) ==
    /\ n > 0
    /\ \/ [S |-> x, T |-> y] \in E
       \/ \E z \in Ptrs : [S |-> x, T |-> z] \in E /\ Reach(E, z, y, n - 1)

Cyclic(E) == \E x \in Ptrs : Reach(E, x, x, Cardinality(Ptrs))

\* the (resource, dependency) index pairs of a registry
DepIndex(res) ==
    UNION { { <<i, j>> : j \in 1..Len(res[i].DependsOn) } : i \in 1..Len(res) }

Dep(res, p) == res[p[1]].DependsOn[p[2]]

\* every DependsOn address resolves with FindResource
AllResolve(res) == \A p \in DepIndex(res) : FindResource(res, Dep(res, p)).kind = "ok"

\* the DependsOn relation, each address resolved with FindResource
DependsOnEdges(res) ==
    { [S |-> FindResource(res, Dep(res, p)).r.ptr, T |-> res[p[1]].ptr] :
        p \in { q \in DepIndex(res) : FindResource(res, Dep(res, q)).kind = "ok" } }

Called(op) == lastOp.op = op

\* ------------------------------------------------------------------ C1
\* C1: the registry never holds two entries with the same Type and the
\* same Name, whatever sequence of AddResource calls was made.
C1_UniqueAddresses ==
    \A i, j \in 1..Len(Resources) : SameAddress(Resources[i], Resources[j]) => i = j

\* ------------------------------------------------------------------ C2
\* C2: AddResource(r) on a registry that already holds r's (Type, Name)
\* returns a ResourceExists error and leaves the registry as it was.
C2_DuplicateRejected ==
    [][ (lastOp'.op = "AddResource" /\ Holds(Resources, lastOp'.r))
          => /\ ret'.kind = "err"
             /\ ret'.err.type = "ResourceExistsError"
             /\ ResourceCount(Resources') = ResourceCount(Resources)
             /\ Resources' = Resources ]_vars

\* ------------------------------------------------------------------ C3
\* C3: DoYaLikeDAGs on a registry whose resolved DependsOn relation has a
\* cycle returns a DependencyCycle error and no graph; every graph it
\* returns without error is acyclic.
C3_CycleRejected ==
    Called("DoYaLikeDAGs") =>
        /\ Cyclic(DependsOnEdges(Resources)) =>
              (ret.kind = "err" /\ ret.err.type = "DependencyCycle" /\ ret.graph.nil)
        /\ (ret.kind = "ok" /\ ~ret.graph.nil) => ~Cyclic(ret.graph.E)

\* ------------------------------------------------------------------ C4
\* C4: when some DependsOn address matches no registered resource,
\* DoYaLikeDAGs returns an error wrapping ResourceNotFound and a nil graph.
C4_UnresolvedIsFatal ==
    (Called("DoYaLikeDAGs") /\ \E p \in DepIndex(Resources) : ~Present(Resources, Dep(Resources, p)))
        => /\ ret.kind = "err"
           /\ ret.err.wraps = "ResourceNotFoundError"
           /\ ret.graph.nil

\* ------------------------------------------------------------------ C5
\* C5: every registered resource R is what FindResource returns for the
\* address R.Type + "." + R.Name: no error, and the same pointer.
C5_AddressRoundTrip ==
    \A i \in 1..Len(Resources) :
        LET f == FindResource(Resources, Sprintf(Resources[i].Type, Resources[i].Name)) IN
        f.kind = "ok" /\ f.err = NilError /\ f.r = Resources[i]

\* ------------------------------------------------------------------ C6
\* C6: FindResource on an address that is not two non-empty segments
\* around a single "." returns a MalformedAddress error: no panic, no
\* resource.
C6_MalformedRejected ==
    (Called("FindResource") /\ ~WellFormed(lastOp.name))
        => /\ ret.kind = "err"
           /\ ret.err.type = "MalformedAddressError"
           /\ ret.r = NilResource

\* ------------------------------------------------------------------ C7
\* C7: AddResource(r) on a registry that holds no resource with r's
\* (Type, Name) returns nil, appends r as the last element, raises
\* ResourceCount by one and keeps every earlier resource at its position.
C7_SuccessfulInsertion ==
    [][ (lastOp'.op = "AddResource" /\ ~Holds(Resources, lastOp'.r))
          => /\ ret'.kind = "ok"
             /\ ret'.err = NilError
             /\ ResourceCount(Resources') = ResourceCount(Resources) + 1
             /\ Resources'[Len(Resources')] = lastOp'.r
             /\ \A i \in 1..Len(Resources) : Resources'[i] = Resources[i] ]_vars

\* an insertion into a non-empty registry that held no such address
C7_Witness ==
    /\ Called("AddResource")
    /\ ret.kind = "ok"
    /\ Len(Resources) = 2
    /\ Resources[2] = lastOp.r
    /\ ~SameAddress(Resources[1], Resources[2])

\* ------------------------------------------------------------------ C8
\* C8: a call to DoYaLikeDAGs, failed ones included, leaves the registry
\* with the same resources in the same order, each with the same Name,
\* Type, Status and DependsOn.
C8_BuildIsReadOnly ==
    [][ lastOp'.op = "DoYaLikeDAGs"
          => /\ Len(Resources') = Len(Resources)
             /\ \A i \in 1..Len(Resources) :
                   /\ Resources'[i].ptr = Resources[i].ptr
                   /\ Resources'[i].Name = Resources[i].Name
                   /\ Resources'[i].Type = Resources[i].Type
                   /\ Resources'[i].Status = Resources[i].Status
                   /\ Resources'[i].DependsOn = Resources[i].DependsOn ]_vars

\* a build that failed on a registry of two resources
C8_Witness ==
    /\ Called("DoYaLikeDAGs")
    /\ ret.kind = "err"
    /\ ret.graph.nil
    /\ Len(Resources) = 2

\* ------------------------------------------------------------------ C9
\* C9: the Config returned by New() holds the default network "wan":
\* ResourceCount() is at least 1 and FindResource of its address succeeds.
C9_DefaultWan ==
    Called("New") =>
        /\ ResourceCount(Resources) >= 1
        /\ FindResource(Resources, NetworkWan).kind = "ok"
        /\ FindResource(Resources, NetworkWan).r.Name = <<"wan">>

\* ----------------------------------------------------------------- C10
\* C10: when every DependsOn address resolves, the graph DoYaLikeDAGs
\* returns has exactly the registered resources as nodes and exactly the
\* edges from FindResource(A) to R, for R registered and A in R.DependsOn.
C10_GraphContent ==
    (Called("DoYaLikeDAGs") /\ AllResolve(Resources))
        => /\ ret.kind = "ok"
           /\ ~ret.graph.nil
           /\ ret.graph.V = { Resources[i].ptr : i \in 1..Len(Resources) }
           /\ ret.graph.E =
                 { [S |-> FindResource(Resources, Dep(Resources, p)).r.ptr,
                    T |-> Resources[p[1]].ptr] : p \in DepIndex(Resources) }

\* a returned graph with an edge between two different resources
C10_Witness ==
    /\ Called("DoYaLikeDAGs")
    /\ AllResolve(Resources)
    /\ ret.kind = "ok"
    /\ \E e \in ret.graph.E : e.S # e.T /\ e.S # 0
====
